---- MODULE Spec2Model ----
(***************************************************************************)
(* GenesisPad: the GenesisTokenFactory registry and the GenesisToken       *)
(* capped free mint (the Solidity contracts of src/tasks/genesis.ts).      *)
(*                                                                         *)
(* Every external call is one action: the EVM runs a transaction to        *)
(* completion and a revert restores the whole pre-state.  The outcome of   *)
(* the last call is kept in lastOp (its arguments and its revert reason).  *)
(*                                                                         *)
(* uint64 is modelled with UintBits bits and uint256 with 4 * UintBits     *)
(* bits, so that the 64-bit boundary is inside the explored range.         *)
(***************************************************************************)
EXTENDS Integers, Sequences, FiniteSets, TLC

\* ---------------------------------------------------------------- bounds
UintBits == 3
MaxTokens == 2
MaxMints == 2
MaxInputLen == 2

\* ----------------------------------------------------------------- types
Uint64Max == 2^UintBits - 1
Uint256Max == 2^(4 * UintBits) - 1

\* externally owned accounts
Users == {"alice", "bob", "carol"}
\* the accounts that call createToken, that call mint, that are minted to
Creators == {"alice"}
Senders == {"alice", "bob"}
Recipients == {"carol"}
\* the deployed GenesisTokenFactory
Factory == "factory"
NoAddress == <<>>
NoUser == "0x0"

\* strings are sequences of characters (bytes(s).length is Len)
Names == {<<>>, <<"G", "U">>}
Symbols == {<<>>, <<"g">>}
Supplies == {0, 2, Uint64Max}
Prices == {5}
Amounts == {0, 1, Uint64Max}

\* ----------------------------------------------------------------- state
VARIABLES
    _tokens,      \* GenesisTokenFactory._tokens : TokenMetadata[]
    nonce,        \* account nonce of the factory (number of CREATEs + 1)
    instances,    \* deployed GenesisToken contracts, by address
    _balances,    \* ERC7984 encrypted ledger of each instance
    TokenCreated, \* TokenCreated events emitted by the factory
    Minted,       \* Minted events emitted by each instance
    lastOp,       \* the last external call and its outcome
    returned,     \* the return data of the last external call
    tokens,        \* GenesisPad: the listing shown by the page
    mintInputs,    \* GenesisPad: the mint amount typed for each token
    statusMessage, \* GenesisPad: the status line (null when absent)
    errorMessage   \* GenesisPad: the error line (null when absent)

\* the state of the page
frontend == <<tokens, mintInputs, statusMessage, errorMessage>>

vars ==
    <<_tokens, nonce, instances, _balances, TokenCreated, Minted, lastOp,
      returned, frontend>>

\* JavaScript's null; a message is a sequence of its text and its numbers
null == <<>>

\* the useState initial values of the page
FrontendInit ==
    /\ tokens = <<>>
    /\ mintInputs = <<>>
    /\ statusMessage = null
    /\ errorMessage = null

\* mutant: the address does not depend on the nonce of the deployer
CreateAddress_IgnoringNonce(deployer, n) == <<deployer, 1>>

\* address of a contract created by `new`: determined by deployer and nonce
CreateAddress(deployer, n) == <<deployer, n>>

\* FHE.asEuint64: trivially encrypts a plaintext uint64 into a ciphertext
asEuint64(v) == [ct |-> v % (Uint64Max + 1)]
\* decryption, only used to state properties of the ledger
decrypt(e) == e.ct
\* FHE.add on euint64 (wraps like the plaintext type)
FHEadd(a, b) == [ct |-> (a.ct + b.ct) % (Uint64Max + 1)]

RECURSIVE SumOver(_, _)
SumOver(f, S) ==
    IF S = {} THEN 0
    ELSE LET x == CHOOSE y \in S : TRUE IN f[x] + SumOver(f, S \ {x})

\* number of Minted events emitted so far by all instances
TotalMinted == SumOver([a \in DOMAIN Minted |-> Len(Minted[a])], DOMAIN Minted)

\* lastOp before any call; a call records the operation, msg.sender, the
\* contract it ran on (or returned), its arguments and its revert reason
Idle ==
    [op |-> "none", sender |-> NoUser, token |-> NoAddress, to |-> NoUser,
     amount |-> 0, name |-> <<>>, symbol |-> <<>>, maxSupply |-> 0,
     initialPriceWei |-> 0, index |-> 0, status |-> "ok"]

\* empty return data (a call that returns nothing, or that reverted)
NoData == <<>>

Init ==
    /\ _tokens = <<>>
    /\ nonce = 1
    /\ instances = <<>>
    /\ _balances = <<>>
    /\ TokenCreated = <<>>
    /\ Minted = <<>>
    /\ lastOp = Idle
    /\ returned = NoData
    /\ FrontendInit

\* ------------------------------------------------------------ GenesisToken
\* mutant: the require on maxSupply_ is missing
ConstructorCheck_NoSupplyCheck(name_, symbol_, maxSupply_) ==
    IF ~(Len(name_) > 0) THEN "Name required"
    ELSE IF ~(Len(symbol_) > 0) THEN "Symbol required"
    ELSE "ok"

\* the three require statements of the constructor, in order
ConstructorCheck(name_, symbol_, maxSupply_) ==
    IF ~(Len(name_) > 0) THEN "Name required"
    ELSE IF ~(Len(symbol_) > 0) THEN "Symbol required"
    ELSE IF ~(maxSupply_ > 0) THEN "Max supply required"
    ELSE "ok"

\* mutant: the constructor hands name and symbol to the base contract in
\* the wrong order
Constructed_SwappedNames(name_, symbol_, maxSupply_, initialPriceWei_, creator_) ==
    [name |-> symbol_, symbol |-> name_, maxSupply |-> maxSupply_,
     mintedSupply |-> 0, initialPriceWei |-> initialPriceWei_,
     creator |-> creator_]

\* mutant: the constructor takes its own msg.sender, the factory, as creator
Constructed_DeployerAsCreator(name_, symbol_, maxSupply_, initialPriceWei_, creator_) ==
    [name |-> name_, symbol |-> symbol_, maxSupply |-> maxSupply_,
     mintedSupply |-> 0, initialPriceWei |-> initialPriceWei_,
     creator |-> Factory]

\* the contract's storage and immutables after the constructor
Constructed(name_, symbol_, maxSupply_, initialPriceWei_, creator_) ==
    [name |-> name_, symbol |-> symbol_, maxSupply |-> maxSupply_,
     mintedSupply |-> 0, initialPriceWei |-> initialPriceWei_,
     creator |-> creator_]

\* mutant: the sum is computed in uint64 and wraps
NewSupply_Wrapping(mintedSupply, amount) ==
    (mintedSupply + amount) % (Uint64Max + 1)

\* uint256 newSupply = uint256(mintedSupply) + amount (checked uint256 add)
NewSupply(mintedSupply, amount) == mintedSupply + amount

\* uint64(newSupply): the explicit narrowing cast keeps the low bits
ToUint64(x) == x % (Uint64Max + 1)

\* mutant: the cap require is missing
MintCheck_NoCapCheck(mintedSupply, maxSupply, amount) ==
    IF ~(amount > 0) THEN "Amount required" ELSE "ok"

\* mutant: the cap require looks at the amount alone
MintCheck_AmountOnly(mintedSupply, maxSupply, amount) ==
    IF ~(amount > 0) THEN "Amount required"
    ELSE IF ~(amount <= maxSupply) THEN "Exceeds supply"
    ELSE "ok"

\* mutant: the amount require is missing
MintCheck_NoAmountCheck(mintedSupply, maxSupply, amount) ==
    IF ~(NewSupply(mintedSupply, amount) <= maxSupply) THEN "Exceeds supply"
    ELSE "ok"

\* mutant: the cap is exclusive
MintCheck_Strict(mintedSupply, maxSupply, amount) ==
    IF ~(amount > 0) THEN "Amount required"
    ELSE IF ~(NewSupply(mintedSupply, amount) < maxSupply) THEN "Exceeds supply"
    ELSE "ok"

\* mutant: the sum is narrowed to uint64 before it is compared with the cap
MintCheck_Narrowed(mintedSupply, maxSupply, amount) ==
    IF ~(amount > 0) THEN "Amount required"
    ELSE IF ~(ToUint64(NewSupply(mintedSupply, amount)) <= maxSupply)
         THEN "Exceeds supply"
    ELSE "ok"

\* mutant: the cap check lets the supply pass the cap by one unit
MintCheck_OffByOne(mintedSupply, maxSupply, amount) ==
    IF amount = 0 THEN "Amount required"
    ELSE IF NewSupply(mintedSupply, amount) > maxSupply + 1
         THEN "Exceeds supply"
    ELSE "ok"

\* the require statements of mint, in order
MintCheck(mintedSupply, maxSupply, amount) ==
    IF ~(amount > 0) THEN "Amount required"
    ELSE IF NewSupply(mintedSupply, amount) > Uint256Max THEN "Panic(0x11)"
    ELSE IF ~(NewSupply(mintedSupply, amount) <= maxSupply) THEN "Exceeds supply"
    ELSE "ok"

\* mintedSupply = uint64(newSupply)
MintedAfter(mintedSupply, amount) == ToUint64(NewSupply(mintedSupply, amount))

\* mutant: the credit replaces the balance instead of adding to it
Credit_Overwriting(ledger, to, encryptedAmount) ==
    [ledger EXCEPT ![to] = encryptedAmount]

\* _mint(to, encryptedAmount): the base token credits the recipient
Credit(ledger, to, encryptedAmount) ==
    [ledger EXCEPT ![to] = FHEadd(@, encryptedAmount)]

\* the Minted event
MintedEvent(sender, to, amount) ==
    [minter |-> sender, recipient |-> to, amount |-> amount]

\* mutant: the write goes to the cap instead of the counter
SetMintedSupply_WrongSlot(self, value) ==
    [self EXCEPT !.maxSupply = self.maxSupply - (value - self.mintedSupply)]

\* mintedSupply = ...: the only storage write of the contract
SetMintedSupply(self, value) == [self EXCEPT !.mintedSupply = value]

\* outcomes of the calls into the confidential-computation runtime
\* (FHE.asEuint64, then _mint)
Capability == {"ok", "asEuint64 reverted", "_mint reverted"}

\* mutant: the failure of the runtime is swallowed, the write is kept
Revert_KeepsWrite(before, partial) == partial

\* a revert raised inside mint is not caught: the storage written so far
\* is rolled back to what it was when the call started
Revert(before, partial) == before

\* mint, with the outcome of the calls into the runtime as an input
mintCall(token, sender, to, amount, capability) ==
    LET self == instances[token]
        check == MintCheck(self.mintedSupply, self.maxSupply, amount)
        status == IF check # "ok" THEN check ELSE capability
        written == [instances EXCEPT ![token] =
                       SetMintedSupply(self,
                           MintedAfter(self.mintedSupply, amount))]
    IN  /\ status = "ok" => TotalMinted < MaxMints
        /\ lastOp' = [Idle EXCEPT !.op = "mint", !.sender = sender,
                                  !.token = token, !.to = to,
                                  !.amount = amount, !.status = status]
        /\ IF status = "ok"
           THEN /\ instances' = written
                /\ _balances' = [_balances EXCEPT ![token] =
                                    Credit(@, to, asEuint64(amount))]
                /\ Minted' = [Minted EXCEPT ![token] =
                                    Append(@, MintedEvent(sender, to, amount))]
           ELSE IF check = "ok"
           THEN /\ instances' = Revert(instances, written)
                /\ UNCHANGED <<_balances, Minted>>
           ELSE UNCHANGED <<instances, _balances, Minted>>
        /\ returned' = NoData
        /\ UNCHANGED <<_tokens, nonce, TokenCreated>>

\* mutant: only the creator of the token may mint
mint_CreatorOnly(token, sender, to, amount) ==
    IF sender = instances[token].creator
    THEN mintCall(token, sender, to, amount, "ok")
    ELSE /\ lastOp' = [Idle EXCEPT !.op = "mint", !.sender = sender,
                                   !.token = token, !.to = to,
                                   !.amount = amount,
                                   !.status = "Only creator"]
         /\ returned' = NoData
         /\ UNCHANGED <<_tokens, nonce, instances, _balances, TokenCreated,
                        Minted>>

\* mint, the runtime answering as its interface promises
mint(token, sender, to, amount) == mintCall(token, sender, to, amount, "ok")

\* details(): (name, symbol, maxSupply, mintedSupply, initialPriceWei, creator)
details(token) ==
    <<instances[token].name, instances[token].symbol,
      instances[token].maxSupply, instances[token].mintedSupply,
      instances[token].initialPriceWei, instances[token].creator>>

\* mutant: a mint on the instance created last lands while the read runs
View_Interleaved(op, status, data) ==
    /\ lastOp' = [op EXCEPT !.status = status]
    /\ returned' = data
    /\ instances' = [t \in DOMAIN instances |->
                        IF /\ t = CreateAddress(Factory, nonce - 1)
                           /\ instances[t].mintedSupply < instances[t].maxSupply
                        THEN [instances[t] EXCEPT !.mintedSupply = @ + 1]
                        ELSE instances[t]]
    /\ UNCHANGED <<_tokens, nonce, _balances, TokenCreated, Minted>>

\* mutant: the read stores the live supplies back into the registry
View_WriteBack(op, status, data) ==
    /\ lastOp' = [op EXCEPT !.status = status]
    /\ returned' = data
    /\ _tokens' = [i \in 1..Len(_tokens) |->
                      [_tokens[i] EXCEPT !.mintedSupply =
                          instances[_tokens[i].token].mintedSupply]]
    /\ UNCHANGED <<nonce, instances, _balances, TokenCreated, Minted>>

\* a view call: state is only read, the result is returned
View(op, status, data) ==
    /\ lastOp' = [op EXCEPT !.status = status]
    /\ returned' = data
    /\ UNCHANGED <<_tokens, nonce, instances, _balances, TokenCreated, Minted>>

\* ----------------------------------------------------- GenesisTokenFactory
\* mutant: name and symbol are stored in each other's field
StoredMetadata_Swapped(token, name_, symbol_, maxSupply_, initialPriceWei_, sender) ==
    [token |-> token, name |-> symbol_, symbol |-> name_,
     maxSupply |-> maxSupply_, mintedSupply |-> 0,
     initialPriceWei |-> initialPriceWei_, creator |-> sender]

\* mutant: the record is stored without the address of the new instance
StoredMetadata_ZeroHandle(token, name_, symbol_, maxSupply_, initialPriceWei_, sender) ==
    [token |-> NoAddress, name |-> name_, symbol |-> symbol_,
     maxSupply |-> maxSupply_, mintedSupply |-> 0,
     initialPriceWei |-> initialPriceWei_, creator |-> sender]

\* mutant: the record is stored with the cap as its minted supply
StoredMetadata_SeededWithCap(token, name_, symbol_, maxSupply_, initialPriceWei_, sender) ==
    [token |-> token, name |-> name_, symbol |-> symbol_,
     maxSupply |-> maxSupply_, mintedSupply |-> maxSupply_,
     initialPriceWei |-> initialPriceWei_, creator |-> sender]

\* the TokenMetadata pushed by createToken
StoredMetadata(token, name_, symbol_, maxSupply_, initialPriceWei_, sender) ==
    [token |-> token, name |-> name_, symbol |-> symbol_,
     maxSupply |-> maxSupply_, mintedSupply |-> 0,
     initialPriceWei |-> initialPriceWei_, creator |-> sender]

\* mutant: the event reports the deployer of the instance as its creator
TokenCreatedEvent_DeployerAsCreator(token, sender, name_, symbol_, maxSupply_, initialPriceWei_) ==
    [token |-> token, creator |-> Factory, name |-> name_,
     symbol |-> symbol_, maxSupply |-> maxSupply_,
     initialPriceWei |-> initialPriceWei_]

\* the TokenCreated event
TokenCreatedEvent(token, sender, name_, symbol_, maxSupply_, initialPriceWei_) ==
    [token |-> token, creator |-> sender, name |-> name_, symbol |-> symbol_,
     maxSupply |-> maxSupply_, initialPriceWei |-> initialPriceWei_]

\* mutant: the new element is put in front
push_Front(array, element) == <<element>> \o array

\* _tokens.push(...)
push(array, element) == Append(array, element)

\* mutant: the new instance takes the place of every existing one
Extend_Overwriting(f, k, v) == [x \in DOMAIN f \cup {k} |-> v]

\* extension of a function by one point
Extend(f, k, v) == [x \in DOMAIN f \cup {k} |-> IF x = k THEN v ELSE f[x]]

createToken(sender, name_, symbol_, maxSupply_, initialPriceWei_) ==
    LET token == CreateAddress(Factory, nonce)
        status == ConstructorCheck(name_, symbol_, maxSupply_)
    IN  /\ status = "ok" => Len(_tokens) < MaxTokens
        /\ lastOp' = [Idle EXCEPT !.op = "createToken", !.sender = sender,
                                  !.token = IF status = "ok" THEN token
                                            ELSE NoAddress,
                                  !.name = name_, !.symbol = symbol_,
                                  !.maxSupply = maxSupply_,
                                  !.initialPriceWei = initialPriceWei_,
                                  !.status = status]
        /\ IF status = "ok"
           THEN /\ instances' = Extend(instances, token,
                                    Constructed(name_, symbol_, maxSupply_,
                                                initialPriceWei_, sender))
                /\ _balances' = Extend(_balances, token,
                                    [u \in Users |-> asEuint64(0)])
                /\ Minted' = Extend(Minted, token, <<>>)
                /\ nonce' = nonce + 1
                /\ _tokens' = push(_tokens,
                                    StoredMetadata(token, name_, symbol_,
                                        maxSupply_, initialPriceWei_, sender))
                /\ TokenCreated' = Append(TokenCreated,
                                    TokenCreatedEvent(token, sender, name_,
                                        symbol_, maxSupply_, initialPriceWei_))
                /\ returned' = token
           ELSE /\ returned' = NoData
                /\ UNCHANGED <<instances, _balances, Minted, nonce, _tokens,
                               TokenCreated>>

\* GenesisToken(stored.token).mintedSupply(): the public getter
mintedSupplyOf(token) == instances[token].mintedSupply

\* mutant: the stored snapshot of mintedSupply is returned
LiveMetadata_Snapshot(stored) == stored

\* one element of the list built by getTokens
LiveMetadata(stored) ==
    [token |-> stored.token, name |-> stored.name, symbol |-> stored.symbol,
     maxSupply |-> stored.maxSupply,
     mintedSupply |-> mintedSupplyOf(stored.token),
     initialPriceWei |-> stored.initialPriceWei, creator |-> stored.creator]

\* the loop of getTokens: list[i] is filled for i = 0 .. length - 1
\* (the arrays of the model are indexed from 1)
RECURSIVE getTokensLoop(_, _, _)
getTokensLoop(i, length, list) ==
    IF i < length
    THEN getTokensLoop(i + 1, length,
                       [list EXCEPT ![i + 1] = LiveMetadata(_tokens[i + 1])])
    ELSE list

\* new TokenMetadata[](length): zero-initialised structs
EmptyMetadata ==
    [token |-> NoAddress, name |-> <<>>, symbol |-> <<>>, maxSupply |-> 0,
     mintedSupply |-> 0, initialPriceWei |-> 0, creator |-> NoUser]

getTokens ==
    LET length == Len(_tokens)
    IN  getTokensLoop(0, length, [i \in 1..length |-> EmptyMetadata])

\* mutant: the stored snapshot of mintedSupply is returned by getToken
SingleMetadata_Snapshot(tokenData) == tokenData

\* the struct built by getToken from tokenData and the live mintedSupply
SingleMetadata(tokenData) ==
    [token |-> tokenData.token, name |-> tokenData.name,
     symbol |-> tokenData.symbol, maxSupply |-> tokenData.maxSupply,
     mintedSupply |-> mintedSupplyOf(tokenData.token),
     initialPriceWei |-> tokenData.initialPriceWei,
     creator |-> tokenData.creator]

\* mutant: an index out of bounds reads an empty slot instead of panicking
getToken_NoBoundsCheck(index) ==
    IF index < Len(_tokens)
    THEN [status |-> "ok", value |-> SingleMetadata(_tokens[index + 1])]
    ELSE [status |-> "ok", value |-> EmptyMetadata]

\* getToken(index): _tokens[index] panics when index is out of bounds
getToken(index) ==
    IF index < Len(_tokens)
    THEN [status |-> "ok", value |-> SingleMetadata(_tokens[index + 1])]
    ELSE [status |-> "Panic(0x32)", value |-> EmptyMetadata]

tokenCount == Len(_tokens)

\* the indexes getToken is called with: the valid ones and one past the
\* largest registry
Indexes == 0..MaxTokens

\* ------------------------------------------------------------------- next
Mint ==
    \E token \in DOMAIN instances, sender \in Senders, to \in Recipients,
       amount \in Amounts :
        /\ mint(token, sender, to, amount)
        /\ UNCHANGED frontend

CreateToken ==
    \E sender \in Creators, name_ \in Names, symbol_ \in Symbols,
       maxSupply_ \in Supplies, initialPriceWei_ \in Prices :
        /\ createToken(sender, name_, symbol_, maxSupply_, initialPriceWei_)
        /\ UNCHANGED frontend

GetTokens ==
    /\ View([Idle EXCEPT !.op = "getTokens"], "ok", getTokens)
    /\ UNCHANGED frontend

GetToken ==
    \E index \in Indexes :
        /\ View([Idle EXCEPT !.op = "getToken", !.index = index],
                getToken(index).status,
                IF getToken(index).status = "ok" THEN getToken(index).value
                ELSE NoData)
        /\ UNCHANGED frontend

TokenCount ==
    /\ View([Idle EXCEPT !.op = "tokenCount"], "ok", tokenCount)
    /\ UNCHANGED frontend

Details ==
    \E token \in DOMAIN instances :
        /\ View([Idle EXCEPT !.op = "details", !.token = token], "ok",
                details(token))
        /\ UNCHANGED frontend

Next ==
    \/ CreateToken
    \/ Mint
    \/ GetTokens
    \/ GetToken
    \/ TokenCount
    \/ Details

Spec == Init /\ [][Next]_vars

\* ------------------------------------------- a runtime that may refuse a call
\* mint with every outcome of FHE.asEuint64 and _mint (the caller plays no
\* part in mint, one caller is enough here)
MintFaulty ==
    \E token \in DOMAIN instances, sender \in Creators, to \in Recipients,
       amount \in Amounts, capability \in Capability :
        /\ mintCall(token, sender, to, amount, capability)
        /\ UNCHANGED frontend

NextFault ==
    \/ CreateToken
    \/ MintFaulty

SpecFault == Init /\ [][NextFault]_vars

\* ------------------------------------------------ tokens of several creators
\* createToken called by two different identities, with one valid cap
CreateTokenByAnyone ==
    \E sender \in Senders, name_ \in Names, initialPriceWei_ \in Prices :
        /\ createToken(sender, name_, <<"g">>, 2, initialPriceWei_)
        /\ UNCHANGED frontend

\* mints of one unit by the same identities
MintOne ==
    \E token \in DOMAIN instances, sender \in Senders, to \in Recipients :
        /\ mint(token, sender, to, 1)
        /\ UNCHANGED frontend

NextCreators ==
    \/ CreateTokenByAnyone
    \/ MintOne

SpecCreators == Init /\ [][NextCreators]_vars

\* ------------------------------------------------ mints to several recipients
\* createToken with any cap, the other arguments fixed
CreateTokenWithCap ==
    \E maxSupply_ \in Supplies :
        /\ createToken("alice", <<"G", "U">>, <<"g">>, maxSupply_, 5)
        /\ UNCHANGED frontend

\* mint by one caller to any identity
MintToAnyone ==
    \E token \in DOMAIN instances, to \in Users, amount \in Amounts :
        /\ mint(token, "alice", to, amount)
        /\ UNCHANGED frontend

NextLedger ==
    \/ CreateTokenWithCap
    \/ MintToAnyone

SpecLedger == Init /\ [][NextLedger]_vars

\* --------------------------------------------------------- the GenesisPad page
\* characters a user can type or paste into the mint amount field
Chars == {"0", "1", "9", "-"}

\* what the field can be handed: every string of at most MaxInputLen chars
Inputs == UNION {[1..n -> Chars] : n \in 0..MaxInputLen}

DecimalDigits == <<"0", "1", "2", "3", "4", "5", "6", "7", "8", "9">>

\* /^\d*$/.test(value)
DigitsOnly(value) ==
    \A i \in 1..Len(value) : \E d \in 1..10 : DecimalDigits[d] = value[i]

DigitValue(c) == (CHOOSE d \in 1..10 : DecimalDigits[d] = c) - 1

RECURSIVE BigInt(_)
\* BigInt(string) of a string of decimal digits; BigInt('') is 0n
BigInt(value) ==
    IF value = <<>> THEN 0
    ELSE 10 * BigInt(SubSeq(value, 1, Len(value) - 1))
            + DigitValue(value[Len(value)])

\* mintInputs[tokenAddress] || '1': undefined and '' are falsy
AmountInput(tokenAddress) ==
    IF tokenAddress \in DOMAIN mintInputs /\ mintInputs[tokenAddress] # <<>>
    THEN mintInputs[tokenAddress]
    ELSE <<"1">>

\* mutant: only negative amounts are refused by the page
RejectsAmount_NegativeOnly(mintAmount) == mintAmount < 0

\* if (mintAmount <= 0)
RejectsAmount(mintAmount) == mintAmount <= 0

\* FACTORY_ADDRESS is set to the deployed factory (README, configuration)
factoryConfigured == TRUE

\* the connected account; it is both caller and recipient of a page mint
Account == "bob"

\* isConnected and signer, as the wallet library reports them
Wallets == {"ready", "disconnected", "no signer"}

\* result.map(...) of fetchTokens: token is renamed address
Normalized(result) ==
    [i \in 1..Len(result) |->
        [address |-> result[i].token, name |-> result[i].name,
         symbol |-> result[i].symbol, maxSupply |-> result[i].maxSupply,
         mintedSupply |-> result[i].mintedSupply,
         initialPriceWei |-> result[i].initialPriceWei,
         creator |-> result[i].creator]]

\* the token cards shown, each with its amount field and mint button
Listed == {tokens[i].address : i \in 1..Len(tokens)}

\* fetchTokens, run when the page mounts or is reloaded
fetchTokens ==
    /\ View([Idle EXCEPT !.op = "getTokens"], "ok", getTokens)
    /\ IF factoryConfigured
       THEN /\ errorMessage' = null
            /\ tokens' = Normalized(getTokens)
       ELSE /\ errorMessage' = <<"Deploy the factory">>
            /\ tokens' = <<>>
    /\ UNCHANGED <<mintInputs, statusMessage>>

handleMintChange(tokenAddress, value) ==
    /\ mintInputs' = IF DigitsOnly(value)
                     THEN Extend(mintInputs, tokenAddress, value)
                     ELSE mintInputs
    /\ UNCHANGED <<_tokens, nonce, instances, _balances, TokenCreated,
                   Minted, lastOp, returned, tokens, statusMessage,
                   errorMessage>>

\* an early return of mintToken: an error line and nothing else
Refuse(message) ==
    /\ statusMessage' = null
    /\ errorMessage' = message
    /\ UNCHANGED <<_tokens, nonce, instances, _balances, TokenCreated,
                   Minted, lastOp, returned, tokens, mintInputs>>

mintToken(tokenAddress, wallet) ==
    LET mintAmount == BigInt(AmountInput(tokenAddress))
        recipient == Account
    IN  IF wallet = "disconnected"
        THEN Refuse(<<"Connect your wallet to mint tokens.">>)
        ELSE IF wallet = "no signer"
        THEN Refuse(<<"Signer unavailable. Please reconnect your wallet.">>)
        ELSE IF ~factoryConfigured
        THEN Refuse(<<"Factory address is not set.">>)
        ELSE IF RejectsAmount(mintAmount)
        THEN Refuse(<<"Enter an amount greater than zero.">>)
        ELSE IF mintAmount > Uint64Max
        THEN \* the uint64 argument cannot be encoded: the call throws
             \* before anything is sent, and the catch reports it
             /\ statusMessage' = <<"Minting", mintAmount>>
             /\ errorMessage' = <<"Mint failed.">>
             /\ UNCHANGED <<_tokens, nonce, instances, _balances,
                            TokenCreated, Minted, lastOp, returned, tokens,
                            mintInputs>>
        ELSE /\ mint(tokenAddress, Account, recipient, mintAmount)
             /\ IF lastOp'.status = "ok"
                THEN \* 'Mint successful.' and then fetchTokens
                     /\ statusMessage' = <<"Mint successful.">>
                     /\ errorMessage' = null
                     /\ tokens' = Normalized(getTokens')
                ELSE /\ statusMessage' = <<"Minting", mintAmount>>
                     /\ errorMessage' = <<"Mint failed.">>
                     /\ tokens' = tokens
             /\ UNCHANGED mintInputs

\* somebody deploys the one token this page is studied with
CreateTokenForPage ==
    /\ _tokens = <<>>
    /\ createToken("alice", <<"G", "U">>, <<"g">>, 2, 5)
    /\ UNCHANGED frontend

FetchTokens == fetchTokens

HandleMintChange ==
    \E tokenAddress \in Listed, value \in Inputs :
        handleMintChange(tokenAddress, value)

MintToken ==
    \E tokenAddress \in Listed, wallet \in Wallets :
        mintToken(tokenAddress, wallet)

NextPage ==
    \/ CreateTokenForPage
    \/ FetchTokens
    \/ HandleMintChange
    \/ MintToken

SpecPage == Init /\ [][NextPage]_vars

\* ------------------------------------------- the cap check on the full range
\* One instance with any cap, filled to any level by one earlier mint, and
\* then minted with any uint64 amount.
InitCap ==
    \E maxSupply_ \in 1..Uint64Max :
      \E minted \in 0..maxSupply_ :
        LET token == CreateAddress(Factory, 1)
            name_ == <<"G", "U">>
            symbol_ == <<"g">>
        IN  /\ _tokens = <<StoredMetadata(token, name_, symbol_, maxSupply_, 5,
                                          "alice")>>
            /\ nonce = 2
            /\ instances = Extend(<<>>, token,
                    [Constructed(name_, symbol_, maxSupply_, 5, "alice")
                        EXCEPT !.mintedSupply = MintedAfter(0, minted)])
            /\ _balances = Extend(<<>>, token,
                    IF minted > 0
                    THEN Credit([u \in Users |-> asEuint64(0)], "carol",
                                asEuint64(minted))
                    ELSE [u \in Users |-> asEuint64(0)])
            /\ TokenCreated = <<TokenCreatedEvent(token, "alice", name_,
                                                  symbol_, maxSupply_, 5)>>
            /\ Minted = Extend(<<>>, token,
                    IF minted > 0
                    THEN <<MintedEvent("alice", "carol", minted)>>
                    ELSE <<>>)
            /\ lastOp = IF minted > 0
                        THEN [Idle EXCEPT !.op = "mint", !.sender = "alice",
                                          !.token = token, !.to = "carol",
                                          !.amount = minted]
                        ELSE [Idle EXCEPT !.op = "createToken",
                                          !.sender = "alice", !.token = token,
                                          !.name = name_, !.symbol = symbol_,
                                          !.maxSupply = maxSupply_,
                                          !.initialPriceWei = 5]
            /\ returned = IF minted > 0 THEN NoData ELSE token
            /\ FrontendInit

\* the calls under study are the one or two mints after the construction of
\* the state, and every call made once the instance is full
MintAnyAmount ==
    \E token \in DOMAIN instances, sender \in Senders, to \in Recipients,
       amount \in 0..Uint64Max :
        /\ \/ Len(Minted[token]) <= 1
           \/ instances[token].mintedSupply = instances[token].maxSupply
        /\ mint(token, sender, to, amount)
        /\ UNCHANGED frontend

NextCap == MintAnyAmount

SpecCap == InitCap /\ [][NextCap]_vars

\* ================================================================ claims
\* the spec's error kinds, as the revert reasons of the contracts
InvalidArgument ==
    {"Name required", "Symbol required", "Max supply required",
     "Amount required"}
SupplyExceeded == {"Exceeds supply"}

\* the step is a call of mint / createToken (every call rewrites lastOp)
MintStep == lastOp'.op = "mint" /\ vars' # vars
CreateStep == lastOp'.op = "createToken" /\ vars' # vars

\* plaintext balance of user u in the ledger of instance t
BalanceOf(t, u) == decrypt(_balances[t][u])

\* C1: in every reachable state every token instance has
\* 0 <= mintedSupply <= maxSupply.
C1_SupplyWithinCap ==
    \A t \in DOMAIN instances :
        /\ 0 <= instances[t].mintedSupply
        /\ instances[t].mintedSupply <= instances[t].maxSupply

\* a failed mint on an instance that successful mints have filled to its cap
C1_Witness ==
    /\ lastOp.op = "mint"
    /\ lastOp.status = "Exceeds supply"
    /\ Len(Minted[lastOp.token]) = 2
    /\ instances[lastOp.token].mintedSupply = instances[lastOp.token].maxSupply

\* C2: a mint with amount > 0 and mintedSupply + amount > maxSupply fails
\* with SupplyExceeded; mintedSupply, every ledger balance and the emitted
\* mint notifications are as before the call.
C2_ExceedingMintFailsAtomically ==
    [][(/\ MintStep
        /\ lastOp'.amount > 0
        /\ instances[lastOp'.token].mintedSupply + lastOp'.amount
             > instances[lastOp'.token].maxSupply)
       => (/\ lastOp'.status \in SupplyExceeded
           /\ instances' = instances
           /\ _balances' = _balances
           /\ Minted' = Minted)]_vars

\* a mint that exceeded the cap of an instance with a credited ledger,
\* where the sum stays below the 64-bit boundary
C2_Witness ==
    /\ lastOp.op = "mint"
    /\ lastOp.status = "Exceeds supply"
    /\ instances[lastOp.token].mintedSupply > 0
    /\ instances[lastOp.token].mintedSupply + lastOp.amount <= Uint64Max
    /\ \E u \in Users : BalanceOf(lastOp.token, u) > 0

\* C3: a mint with amount = 0 fails with InvalidArgument in every state of
\* the instance, also at mintedSupply = maxSupply (never SupplyExceeded),
\* and leaves mintedSupply and the ledger unchanged.
C3_ZeroMintFails ==
    [][(MintStep /\ lastOp'.amount = 0)
       => (/\ lastOp'.status = "Amount required"
           /\ lastOp'.status \in InvalidArgument
           /\ lastOp'.status \notin SupplyExceeded
           /\ instances' = instances
           /\ _balances' = _balances
           /\ Minted' = Minted)]_vars

\* a zero mint on an instance whose supply is exhausted
C3_Witness ==
    /\ lastOp.op = "mint"
    /\ lastOp.amount = 0
    /\ lastOp.status = "Amount required"
    /\ instances[lastOp.token].mintedSupply = instances[lastOp.token].maxSupply

\* C4: mint(recipient, amount) succeeds iff amount > 0 and mintedSupply +
\* amount <= maxSupply; on success mintedSupply grows by amount exactly, the
\* recipient's balance is credited by amount exactly and exactly one mint
\* notification (caller, recipient, amount) is emitted.
C4_MintSucceedsIffWithinCap ==
    [][MintStep =>
        LET token == lastOp'.token
            amount == lastOp'.amount
            old == instances[token].mintedSupply
        IN  /\ (lastOp'.status = "ok") <=>
                  (amount > 0 /\ old + amount <= instances[token].maxSupply)
            /\ lastOp'.status = "ok" =>
                  /\ instances'[token].mintedSupply = old + amount
                  /\ decrypt(_balances'[token][lastOp'.to])
                        = BalanceOf(token, lastOp'.to) + amount
                  /\ \A u \in Users \ {lastOp'.to} :
                        _balances'[token][u] = _balances[token][u]
                  /\ Minted'[token] =
                        Append(Minted[token],
                               [minter |-> lastOp'.sender,
                                recipient |-> lastOp'.to,
                                amount |-> amount])]_vars

\* a second successful mint, by someone who is neither the creator nor the
\* recipient, that fills the instance exactly to its cap
C4_Witness ==
    /\ lastOp.op = "mint"
    /\ lastOp.status = "ok"
    /\ lastOp.sender \notin {lastOp.to, instances[lastOp.token].creator}
    /\ Len(Minted[lastOp.token]) = 2
    /\ BalanceOf(lastOp.token, lastOp.to) = instances[lastOp.token].maxSupply
    /\ instances[lastOp.token].mintedSupply = instances[lastOp.token].maxSupply

\* C5: mintedSupply of every instance never decreases, and it changes only
\* by a successful mint on that same instance.
C5_MintedSupplyMonotonic ==
    [][\A t \in DOMAIN instances :
        /\ t \in DOMAIN instances'
        /\ instances'[t].mintedSupply >= instances[t].mintedSupply
        /\ instances'[t].mintedSupply # instances[t].mintedSupply
             => (/\ lastOp'.op = "mint"
                 /\ lastOp'.status = "ok"
                 /\ lastOp'.token = t)]_vars

\* two instances, one minted on and then the other
C5_Witness ==
    /\ Len(_tokens) = 2
    /\ lastOp.op = "mint"
    /\ lastOp.status = "ok"
    /\ \A t \in DOMAIN instances : instances[t].mintedSupply > 0

\* C6: the cap check is overflow-safe on the whole 64-bit range: the sum
\* mintedSupply + amount is compared with maxSupply without wraparound, a
\* sum of 2^64 or more is rejected with SupplyExceeded, and the value stored
\* in mintedSupply is the untruncated sum.
C6_CapCheckOverflowSafe ==
    [][MintStep =>
        LET token == lastOp'.token
            sum == instances[token].mintedSupply + lastOp'.amount
        IN  /\ (lastOp'.amount > 0 /\ sum > instances[token].maxSupply)
                  => lastOp'.status \in SupplyExceeded
            /\ sum > Uint64Max
                  => (lastOp'.status \in SupplyExceeded /\ instances' = instances)
            /\ lastOp'.status = "ok"
                  => (/\ sum <= instances[token].maxSupply
                      /\ sum <= Uint64Max
                      /\ instances'[token].mintedSupply = sum)]_vars

\* a rejected mint whose sum passes 2^64 and, wrapped to 64 bits, would
\* have been within the cap
C6_Witness ==
    /\ lastOp.op = "mint"
    /\ lastOp.status = "Exceeds supply"
    /\ instances[lastOp.token].mintedSupply > 1
    /\ lastOp.amount < Uint64Max
    /\ instances[lastOp.token].mintedSupply + lastOp.amount > Uint64Max
    /\ ToUint64(instances[lastOp.token].mintedSupply + lastOp.amount)
          + 1 <= instances[lastOp.token].maxSupply

\* the record createToken is expected to store and report for its arguments
ExpectedRecord(op) ==
    [token |-> op.token, name |-> op.name, symbol |-> op.symbol,
     maxSupply |-> op.maxSupply, mintedSupply |-> 0,
     initialPriceWei |-> op.initialPriceWei, creator |-> op.sender]

ValidCreation(op) ==
    Len(op.name) > 0 /\ Len(op.symbol) > 0 /\ op.maxSupply > 0

\* C7: createToken with a non-empty name, a non-empty symbol and
\* maxSupply > 0 succeeds in any registry state, tokenCount grows by exactly
\* one, and the record at the last position is reported by getToken and
\* getTokens with mintedSupply = 0 and the name, symbol, maxSupply and price
\* passed in.
C7_CreateTokenAppendsRecord ==
    [][(CreateStep /\ ValidCreation(lastOp')) =>
        /\ lastOp'.status = "ok"
        /\ tokenCount' = tokenCount + 1
        /\ \A last \in {tokenCount' - 1} :
              /\ getToken(last)'.status = "ok"
              /\ getToken(last)'.value = ExpectedRecord(lastOp')
              /\ Len(getTokens') = last + 1
              /\ getTokens'[last + 1] = ExpectedRecord(lastOp')]_vars

\* a creation in a registry that already holds a minted token
C7_Witness ==
    /\ lastOp.op = "createToken"
    /\ lastOp.status = "ok"
    /\ tokenCount = 2
    /\ instances[_tokens[1].token].mintedSupply > 0
    /\ getTokens[2] = ExpectedRecord(lastOp)

\* C8: createToken with an empty name, an empty symbol or maxSupply = 0
\* fails with InvalidArgument and changes nothing: the registry and
\* tokenCount are as before, no instance was created and no creation
\* notification was emitted.
C8_InvalidCreateFailsAtomically ==
    [][(CreateStep /\ ~ValidCreation(lastOp')) =>
        /\ lastOp'.status \in InvalidArgument
        /\ _tokens' = _tokens
        /\ tokenCount' = tokenCount
        /\ DOMAIN instances' = DOMAIN instances
        /\ instances' = instances
        /\ nonce' = nonce
        /\ _balances' = _balances
        /\ TokenCreated' = TokenCreated
        /\ Minted' = Minted
        /\ returned' = NoData]_vars

\* a creation with maxSupply = 0 and valid strings, rejected in a registry
\* that holds a token
C8_Witness ==
    /\ lastOp.op = "createToken"
    /\ lastOp.status = "Max supply required"
    /\ lastOp.maxSupply = 0
    /\ Len(lastOp.name) > 0
    /\ Len(lastOp.symbol) > 0
    /\ tokenCount = 1

IsPrefix(s, t) ==
    Len(s) <= Len(t) /\ \A i \in 1..Len(s) : s[i] = t[i]

\* C9: the registry sequence is append-only: every step leaves the stored
\* sequence a prefix of the new one, and a successful createToken changes
\* it by appending exactly one record at the end.
C9_RegistryAppendOnly ==
    [][/\ IsPrefix(_tokens, _tokens')
       /\ (CreateStep /\ lastOp'.status = "ok")
             => (/\ Len(_tokens') = Len(_tokens) + 1
                 /\ SubSeq(_tokens', 1, Len(_tokens)) = _tokens
                 /\ _tokens'[Len(_tokens')].token = lastOp'.token)
       /\ ~(CreateStep /\ lastOp'.status = "ok") => _tokens' = _tokens]_vars

\* a second record appended behind a first one that differs from it
C9_Witness ==
    /\ lastOp.op = "createToken"
    /\ lastOp.status = "ok"
    /\ Len(_tokens) = 2
    /\ _tokens[1].maxSupply # _tokens[2].maxSupply
    /\ _tokens[2].token = lastOp.token

\* C10: getTokens returns exactly tokenCount records in creation order;
\* record i carries the current mintedSupply of the instance that stored
\* record i references, and the stored values of all other fields.
C10_GetTokensLiveMerge ==
    lastOp.op = "getTokens" =>
        /\ lastOp.status = "ok"
        /\ Len(returned) = tokenCount
        /\ \A i \in 1..tokenCount :
              /\ returned[i].token = TokenCreated[i].token
              /\ returned[i].mintedSupply
                    = instances[_tokens[i].token].mintedSupply
              /\ returned[i] =
                    [_tokens[i] EXCEPT !.mintedSupply = returned[i].mintedSupply]

\* a listing of two records whose instances have different, non-zero
\* minted supplies
C10_Witness ==
    /\ lastOp.op = "getTokens"
    /\ Len(returned) = 2
    /\ returned[1].mintedSupply > 0
    /\ returned[2].mintedSupply > 0
    /\ returned[1].mintedSupply # returned[2].mintedSupply

IndexOutOfRange == {"Panic(0x32)"}

\* the step is a call of one of the view functions
GetTokenStep == lastOp'.op = "getToken" /\ vars' # vars
ReadOps == {"getTokens", "getToken", "tokenCount", "details"}
ReadStep == lastOp'.op \in ReadOps /\ vars' # vars

\* everything but the record of the last call
contracts == <<_tokens, nonce, instances, _balances, TokenCreated, Minted>>

\* C11: getToken(index) fails with IndexOutOfRange for every index >=
\* tokenCount, in every reachable state (the empty registry included), and
\* the failed call changes no state.
C11_GetTokenOutOfRange ==
    [][(GetTokenStep /\ lastOp'.index >= tokenCount) =>
        /\ lastOp'.status \in IndexOutOfRange
        /\ returned' = NoData
        /\ contracts' = contracts]_vars

\* a failed getToken at the first invalid index of a non-empty registry
C11_Witness ==
    /\ lastOp.op = "getToken"
    /\ lastOp.status = "Panic(0x32)"
    /\ tokenCount >= 1
    /\ lastOp.index = tokenCount

\* C12: for every valid index i < tokenCount, getToken(i) succeeds and
\* returns the record, with the same live mintedSupply, that getTokens()
\* returns at position i in the same state.
C12_GetTokenAgreesWithGetTokens ==
    (lastOp.op = "getToken" /\ lastOp.index < tokenCount) =>
        /\ lastOp.status = "ok"
        /\ returned = getTokens[lastOp.index + 1]

\* getToken of the second record, whose instance has been minted on
C12_Witness ==
    /\ lastOp.op = "getToken"
    /\ lastOp.status = "ok"
    /\ lastOp.index = 1
    /\ returned.mintedSupply > 0
    /\ returned.token = _tokens[2].token

\* the outcome of mint as a function of the instance and the amount alone
ExpectedMintStatus(self, amount) ==
    IF amount = 0 THEN "Amount required"
    ELSE IF self.mintedSupply + amount > self.maxSupply THEN "Exceeds supply"
    ELSE "ok"

\* C13: mint is unauthenticated: its outcome, the new mintedSupply and the
\* new ledger are determined by the instance state, the recipient and the
\* amount, whoever the caller is; a caller who is not the creator can mint
\* to any recipient, limited by the global cap only.
C13_MintIgnoresCaller ==
    [][MintStep =>
        LET token == lastOp'.token
            amount == lastOp'.amount
            status == ExpectedMintStatus(instances[token], amount)
            credit(t, u) == IF status = "ok" /\ t = token /\ u = lastOp'.to
                            THEN amount ELSE 0
            growth(t) == IF status = "ok" /\ t = token THEN amount ELSE 0
        IN  /\ lastOp'.status = status
            /\ \A t \in DOMAIN instances :
                  /\ instances'[t].mintedSupply
                        = instances[t].mintedSupply + growth(t)
                  /\ \A u \in Users :
                        decrypt(_balances'[t][u]) = BalanceOf(t, u) + credit(t, u)]_vars

\* a caller who is not the creator has minted the whole cap, in two mints,
\* to somebody else
C13_Witness ==
    /\ lastOp.op = "mint"
    /\ lastOp.status = "ok"
    /\ Len(Minted[lastOp.token]) = 2
    /\ \A i \in 1..2 :
          /\ Minted[lastOp.token][i].minter # instances[lastOp.token].creator
          /\ Minted[lastOp.token][i].minter = lastOp.sender
          /\ Minted[lastOp.token][i].recipient # lastOp.sender
    /\ instances[lastOp.token].mintedSupply = instances[lastOp.token].maxSupply

\* C14: the cap is inclusive and absorbing: a mint of exactly
\* maxSupply - mintedSupply > 0 succeeds and brings mintedSupply to
\* maxSupply; once mintedSupply = maxSupply every mint fails (with
\* "Exceeds supply" when amount >= 1) and mintedSupply stays at maxSupply.
C14_CapInclusiveAbsorbing ==
    [][/\ \A t \in DOMAIN instances :
             instances[t].mintedSupply = instances[t].maxSupply
                => instances'[t].mintedSupply = instances'[t].maxSupply
       /\ MintStep =>
            LET self == instances[lastOp'.token]
                remaining == self.maxSupply - self.mintedSupply
            IN  /\ (remaining > 0 /\ lastOp'.amount = remaining)
                      => /\ lastOp'.status = "ok"
                         /\ instances'[lastOp'.token].mintedSupply
                               = self.maxSupply
                /\ remaining = 0 => lastOp'.status # "ok"
                /\ (remaining = 0 /\ lastOp'.amount >= 1)
                      => lastOp'.status \in SupplyExceeded]_vars

\* two mints of more than one unit each have filled the cap exactly, and a
\* later mint of one unit has been refused
C14_Witness ==
    /\ lastOp.op = "mint"
    /\ lastOp.amount = 1
    /\ lastOp.status = "Exceeds supply"
    /\ Len(Minted[lastOp.token]) = 2
    /\ Minted[lastOp.token][1].amount > 1
    /\ Minted[lastOp.token][2].amount > 1
    /\ Minted[lastOp.token][1].amount + Minted[lastOp.token][2].amount
          = instances[lastOp.token].maxSupply
    /\ instances[lastOp.token].mintedSupply = instances[lastOp.token].maxSupply

\* the mint was refused by the confidential-computation runtime
CapabilityFailed == Capability \ {"ok"}

\* sum of the ledger balances of instance t
LedgerTotal(t) == SumOver([u \in Users |-> BalanceOf(t, u)], Users)

\* C15: when the encoding or the credit fails in a mint whose argument and
\* cap checks passed, the whole mint fails and nothing is written; in every
\* mint mintedSupply and the recipient's balance advance together, by the
\* amount or not at all, and mintedSupply equals what the ledger holds.
C15_CapabilityFailureAtomic ==
    [][/\ (MintStep /\ lastOp'.status \in CapabilityFailed)
             => /\ ExpectedMintStatus(instances[lastOp'.token],
                                      lastOp'.amount) = "ok"
                /\ contracts' = contracts
       /\ MintStep =>
             LET token == lastOp'.token
                 grown == instances'[token].mintedSupply
                             - instances[token].mintedSupply
                 credited == decrypt(_balances'[token][lastOp'.to])
                             - decrypt(_balances[token][lastOp'.to])
             IN  /\ grown = credited
                 /\ grown \in {0, lastOp'.amount}
                 /\ lastOp'.status # "ok" => grown = 0
                 /\ \A t \in {token} :
                       instances'[t].mintedSupply = LedgerTotal(t)']_vars

\* the credit was refused in a mint that fitted under the cap of an
\* instance already minted from
C15_Witness ==
    /\ lastOp.op = "mint"
    /\ lastOp.status = "_mint reverted"
    /\ lastOp.amount > 0
    /\ instances[lastOp.token].mintedSupply > 0
    /\ instances[lastOp.token].mintedSupply + lastOp.amount
          <= instances[lastOp.token].maxSupply
    /\ BalanceOf(lastOp.token, lastOp.to) = instances[lastOp.token].mintedSupply

GetTokensStep == lastOp'.op = "getTokens" /\ vars' # vars

\* the listing just returned carries a supply that is not the supply of the
\* instance in the state the listing was made in
TornListing ==
    /\ lastOp.op = "getTokens"
    /\ \E i \in 1..Len(returned) :
          returned[i].mintedSupply
             # instances[returned[i].token].mintedSupply

\* C16 as stated: a listing over several instances is not atomic, so
\* wherever the registry holds two or more records and one of their
\* instances can still be minted from, a listing whose supplies were never
\* true together can be returned.
C16_TornListingPossible ==
    (/\ tokenCount >= 2
     /\ \E i \in 1..tokenCount :
           instances[_tokens[i].token].mintedSupply
              < instances[_tokens[i].token].maxSupply)
    => ENABLED (GetTokens /\ TornListing')

\* C16, amended: getTokens is one call that runs on one state: no mint is
\* interleaved with its reads, and every mintedSupply it returns is the
\* supply the instance had in the single state the call started in.
C16_ListingAtomic ==
    [][GetTokensStep =>
        /\ contracts' = contracts
        /\ Len(returned') = Len(_tokens)
        /\ \A i \in 1..Len(_tokens) :
              /\ returned'[i].token = _tokens[i].token
              /\ returned'[i].mintedSupply
                    = instances[_tokens[i].token].mintedSupply
        /\ ~TornListing']_vars

\* a listing of two records made right after mints on both instances, the
\* one created last still open to mints
C16_Witness ==
    /\ lastOp.op = "getTokens"
    /\ Len(returned) = 2
    /\ Len(Minted[returned[1].token]) = 1
    /\ Len(Minted[returned[2].token]) = 1
    /\ returned[2].mintedSupply < returned[2].maxSupply
    /\ returned[1].mintedSupply = Minted[returned[1].token][1].amount
    /\ returned[2].mintedSupply = Minted[returned[2].token][1].amount

\* C17: the creator stored in the registry record, in the token instance and
\* in the creation notification is the caller of createToken, not the
\* factory that deploys the instance, and it never changes afterwards.
C17_CreatorIsCaller ==
    [][/\ (CreateStep /\ lastOp'.status = "ok") =>
             \A last \in {Len(_tokens')} :
                /\ last = Len(_tokens) + 1
                /\ lastOp'.sender # Factory
                /\ _tokens'[last].creator = lastOp'.sender
                /\ instances'[_tokens'[last].token].creator = lastOp'.sender
                /\ TokenCreated'[last].creator = lastOp'.sender
       /\ \A i \in 1..Len(_tokens) :
             /\ _tokens'[i].creator = _tokens[i].creator
             /\ _tokens'[i].token = _tokens[i].token
             /\ instances'[_tokens[i].token].creator
                   = instances[_tokens[i].token].creator
             /\ instances[_tokens[i].token].creator = _tokens[i].creator]_vars

\* two tokens of two different creators, the first one minted from twice,
\* lastly by somebody who is not its creator
C17_Witness ==
    /\ Len(_tokens) = 2
    /\ _tokens[1].creator # _tokens[2].creator
    /\ instances[_tokens[1].token].creator = _tokens[1].creator
    /\ instances[_tokens[2].token].creator = _tokens[2].creator
    /\ lastOp.op = "mint"
    /\ lastOp.status = "ok"
    /\ lastOp.token = _tokens[1].token
    /\ lastOp.sender # _tokens[1].creator
    /\ Len(Minted[_tokens[1].token]) = 2

\* C18: getTokens, getToken, tokenCount and details change no state,
\* whether they succeed or fail: the registry sequence, every mintedSupply
\* and every ledger balance are as before; tokenCount is the number of
\* successful createToken calls so far and is what the tokenCount read
\* returns.
C18_ReadsChangeNothing ==
    [][/\ ReadStep =>
             /\ _tokens' = _tokens
             /\ instances' = instances
             /\ _balances' = _balances
             /\ contracts' = contracts
       /\ tokenCount' = tokenCount
             + (IF CreateStep /\ lastOp'.status = "ok" THEN 1 ELSE 0)
       /\ tokenCount' = Len(TokenCreated')
       /\ tokenCount' = nonce' - 1
       /\ lastOp'.op = "tokenCount"
             => (lastOp'.status = "ok" /\ returned' = tokenCount')]_vars

\* tokenCount read as 2 after two creations and a mint on each instance
C18_Witness ==
    /\ lastOp.op = "tokenCount"
    /\ returned = 2
    /\ Len(TokenCreated) = 2
    /\ \A i \in 1..2 : _tokens[i].mintedSupply = 0
    /\ \A i \in 1..2 : instances[_tokens[i].token].mintedSupply > 0

\* the six values of details() as the fields of a record
AsDetails(r) ==
    <<r.name, r.symbol, r.maxSupply, r.mintedSupply, r.initialPriceWei,
      r.creator>>

\* C19: details() always succeeds and returns (name, symbol, maxSupply,
\* mintedSupply, initialPriceWei, creator) with the current mintedSupply;
\* for every registry position i, getToken(i) reports the same six values as
\* details() of the instance that record i references.
C19_DetailsAgreeWithGetToken ==
    /\ lastOp.op = "details" =>
          /\ lastOp.status = "ok"
          /\ returned = AsDetails(instances[lastOp.token])
          /\ returned[4] = mintedSupplyOf(lastOp.token)
    /\ \A i \in 0..(tokenCount - 1) :
          /\ getToken(i).status = "ok"
          /\ AsDetails(getToken(i).value)
                = details(getToken(i).value.token)
          /\ getToken(i).value.token = _tokens[i + 1].token

\* details() read on the second of two instances after a mint on it
C19_Witness ==
    /\ lastOp.op = "details"
    /\ tokenCount = 2
    /\ lastOp.token = _tokens[2].token
    /\ returned[4] > 0
    /\ returned[4] < returned[3]
    /\ returned[1] # returned[2]

\* the fields of an instance that are set by the constructor only
Immutables(self) ==
    [name |-> self.name, symbol |-> self.symbol, maxSupply |-> self.maxSupply,
     initialPriceWei |-> self.initialPriceWei, creator |-> self.creator]

\* C20: maxSupply, name, symbol, initialPriceWei and creator of a token are
\* fixed at creation: no mint, createToken or read changes them, in the
\* instance or in the registry record, which keeps the values createToken
\* was called with.
C20_CreationParametersFixed ==
    [][\A i \in 1..Len(_tokens) :
          /\ Immutables(instances'[_tokens[i].token])
                = Immutables(instances[_tokens[i].token])
          /\ Immutables(_tokens'[i]) = Immutables(_tokens[i])
          /\ Immutables(_tokens'[i]) = Immutables(TokenCreated'[i])
          /\ instances'[_tokens[i].token].maxSupply > 0]_vars

\* a read after two mints have filled the first of two instances: its cap
\* is still the one it was created with
C20_Witness ==
    /\ lastOp.op \in ReadOps
    /\ tokenCount = 2
    /\ Len(Minted[_tokens[1].token]) = 2
    /\ instances[_tokens[1].token].mintedSupply = TokenCreated[1].maxSupply
    /\ instances[_tokens[1].token].maxSupply = TokenCreated[1].maxSupply
    /\ _tokens[1].maxSupply = TokenCreated[1].maxSupply

\* C21: the mintedSupply stored in the registry's own records is 0 in every
\* reachable state, however many mints the referenced instance has seen;
\* only what getTokens and getToken return carries the live counter.
C21_StoredSupplyStaysZero ==
    /\ \A i \in 1..Len(_tokens) :
          /\ _tokens[i].mintedSupply = 0
          /\ getTokens[i].mintedSupply = mintedSupplyOf(_tokens[i].token)
          /\ getToken(i - 1).value.mintedSupply
                = mintedSupplyOf(_tokens[i].token)
    /\ (lastOp.op = "getToken" /\ lastOp.status = "ok")
          => returned.mintedSupply = mintedSupplyOf(returned.token)

\* getToken has returned the live supply of an instance that two mints have
\* filled, while the stored record still says 0
C21_Witness ==
    /\ lastOp.op = "getToken"
    /\ lastOp.status = "ok"
    /\ Len(Minted[returned.token]) = 2
    /\ returned.mintedSupply = returned.maxSupply
    /\ _tokens[lastOp.index + 1].mintedSupply = 0
    /\ _tokens[lastOp.index + 1].token = returned.token

\* what a creation notification and a stored record have in common
Notified(r) ==
    [token |-> r.token, creator |-> r.creator, name |-> r.name,
     symbol |-> r.symbol, maxSupply |-> r.maxSupply,
     initialPriceWei |-> r.initialPriceWei]

\* C22: creation notifications correspond one-to-one and in order with the
\* registry records: their number is tokenCount, the k-th notification
\* carries the handle, creator, name, symbol, maxSupply and price of the
\* k-th record, and a failed createToken emits none.
C22_NotificationsMatchRecords ==
    [][/\ Len(TokenCreated') = tokenCount'
       /\ \A k \in 1..Len(_tokens') :
             TokenCreated'[k] = Notified(_tokens'[k])
       /\ IsPrefix(TokenCreated, TokenCreated')
       /\ (CreateStep /\ lastOp'.status # "ok")
             => TokenCreated' = TokenCreated
       /\ (CreateStep /\ lastOp'.status = "ok")
             => /\ Len(TokenCreated') = Len(TokenCreated) + 1
                /\ TokenCreated'[Len(TokenCreated')]
                      = Notified(ExpectedRecord(lastOp'))
       /\ ~CreateStep => TokenCreated' = TokenCreated]_vars

\* a failed creation after two successful ones with different arguments
C22_Witness ==
    /\ lastOp.op = "createToken"
    /\ lastOp.status \in InvalidArgument
    /\ Len(TokenCreated) = 2
    /\ tokenCount = 2
    /\ TokenCreated[1].maxSupply # TokenCreated[2].maxSupply
    /\ TokenCreated[1].token # TokenCreated[2].token

RECURSIVE SumAmounts(_)
\* sum of the amounts carried by a sequence of Minted events
SumAmounts(events) ==
    IF events = <<>> THEN 0
    ELSE Head(events).amount + SumAmounts(Tail(events))

\* C23: conservation of minted supply: in every reachable state, for each
\* token instance, the amounts credited to the ledger over all recipients
\* sum to mintedSupply, and so do the amounts of all Minted events of the
\* instance.
C23_SupplyConserved ==
    \A t \in DOMAIN instances :
        /\ LedgerTotal(t) = instances[t].mintedSupply
        /\ SumAmounts(Minted[t]) = instances[t].mintedSupply
        /\ \A u \in Users :
              BalanceOf(t, u)
                 = SumAmounts(SelectSeq(Minted[t],
                                        LAMBDA e : e.recipient = u))

\* an instance minted to two different recipients, with a refused mint in
\* between or after
C23_Witness ==
    \E t \in DOMAIN instances :
        /\ Len(Minted[t]) = 2
        /\ Minted[t][1].recipient # Minted[t][2].recipient
        /\ BalanceOf(t, Minted[t][1].recipient) > 0
        /\ BalanceOf(t, Minted[t][2].recipient) > 0
        /\ instances[t].mintedSupply = 2
        /\ lastOp.op = "mint"
        /\ lastOp.status = "Exceeds supply"
        /\ lastOp.token = t

\* C24: a mint on one instance, successful or failed, leaves the
\* mintedSupply and the ledger of every other instance, the registry's
\* stored sequence and tokenCount unchanged; a createToken leaves the
\* mintedSupply and the ledger of every existing instance unchanged.
C24_OtherInstancesUntouched ==
    [][/\ MintStep =>
             /\ \A t \in DOMAIN instances \ {lastOp'.token} :
                   /\ instances'[t] = instances[t]
                   /\ _balances'[t] = _balances[t]
                   /\ Minted'[t] = Minted[t]
             /\ DOMAIN instances' = DOMAIN instances
             /\ _tokens' = _tokens
             /\ tokenCount' = tokenCount
             /\ TokenCreated' = TokenCreated
       /\ CreateStep =>
             \A t \in DOMAIN instances :
                /\ t \in DOMAIN instances'
                /\ instances'[t].mintedSupply = instances[t].mintedSupply
                /\ instances'[t] = instances[t]
                /\ _balances'[t] = _balances[t]]_vars

\* a successful mint on the second instance while the first one is minted
\* from as well
C24_Witness ==
    /\ tokenCount = 2
    /\ lastOp.op = "mint"
    /\ lastOp.status = "ok"
    /\ lastOp.token = _tokens[2].token
    /\ instances[_tokens[1].token].mintedSupply > 0
    /\ instances[_tokens[2].token].mintedSupply
          # instances[_tokens[1].token].mintedSupply

\* C25: in every reachable state each stored record's token is an existing
\* instance, the one deployed by the createToken call that appended the
\* record; instances are never destroyed, so the live reads of getTokens
\* and of getToken with a valid index have a contract to call and succeed.
C25_HandlesReferToInstances ==
    [][/\ \A i \in 1..Len(_tokens') :
             /\ _tokens'[i].token \in DOMAIN instances'
             /\ _tokens'[i].token = CreateAddress(Factory, i)
             /\ _tokens'[i].token = TokenCreated'[i].token
       /\ DOMAIN instances' = {_tokens'[i].token : i \in 1..Len(_tokens')}
       /\ DOMAIN instances \subseteq DOMAIN instances'
       /\ (CreateStep /\ lastOp'.status = "ok") =>
             /\ lastOp'.token \notin DOMAIN instances
             /\ DOMAIN instances' = DOMAIN instances \cup {lastOp'.token}
             /\ _tokens'[Len(_tokens')].token = lastOp'.token
             /\ returned' = lastOp'.token
       /\ ~(CreateStep /\ lastOp'.status = "ok") =>
             DOMAIN instances' = DOMAIN instances
       /\ (ReadStep /\ lastOp'.op = "getTokens") => lastOp'.status = "ok"
       /\ (GetTokenStep /\ lastOp'.index < tokenCount)
             => lastOp'.status = "ok"]_vars

\* getToken on the last of two records, whose instance has been minted from
\* since it was created
C25_Witness ==
    /\ lastOp.op = "getToken"
    /\ lastOp.status = "ok"
    /\ tokenCount = 2
    /\ lastOp.index = 1
    /\ returned.token = CreateAddress(Factory, 2)
    /\ returned.token \in DOMAIN instances
    /\ Len(Minted[returned.token]) = 2

\* C26: the handles in the registry are pairwise distinct: a successful
\* createToken returns a handle different from all handles stored before,
\* also when it is called again with the same name, symbol, maxSupply and
\* price by the same caller, so no two records share a mintedSupply counter.
C26_HandlesDistinct ==
    /\ \A i, j \in 1..Len(_tokens) :
          i # j => _tokens[i].token # _tokens[j].token
    /\ Cardinality(DOMAIN instances) = Len(_tokens)
    /\ (lastOp.op = "createToken" /\ lastOp.status = "ok") =>
          /\ returned = _tokens[tokenCount].token
          /\ \A i \in 1..(tokenCount - 1) : _tokens[i].token # returned

\* two records created by the same caller with the same arguments, whose
\* instances hold different minted supplies
C26_Witness ==
    /\ tokenCount = 2
    /\ Immutables(_tokens[1]) = Immutables(_tokens[2])
    /\ _tokens[1].token # _tokens[2].token
    /\ instances[_tokens[1].token].mintedSupply
          # instances[_tokens[2].token].mintedSupply
    /\ instances[_tokens[2].token].mintedSupply > 0

\* the amount field of a token as the page holds it ('' when never typed)
TypedAmount(t) == IF t \in DOMAIN mintInputs THEN mintInputs[t] ELSE <<>>

\* C27: the page's mintToken never submits a mint with amount 0: the amount
\* field keeps digit strings only, an empty or missing input is submitted as
\* amount 1, and an input that parses to 0 is refused by the page with an
\* error message before any transaction is sent.
C27_PageNeverMintsZero ==
    [][/\ \A t \in DOMAIN mintInputs' : DigitsOnly(mintInputs'[t])
       /\ (lastOp' # lastOp /\ lastOp'.op = "mint")
             => /\ lastOp'.amount >= 1
                /\ lastOp'.status # "Amount required"
       /\ \A t \in DOMAIN Minted' :
             \A i \in 1..Len(Minted'[t]) : Minted'[t][i].amount >= 1
       /\ \A t \in Listed :
             mintToken(t, "ready") =>
                /\ TypedAmount(t) = <<>>
                      => /\ lastOp'.op = "mint"
                         /\ lastOp'.token = t
                         /\ lastOp'.amount = 1
                /\ (TypedAmount(t) # <<>> /\ BigInt(TypedAmount(t)) = 0)
                      => /\ errorMessage'
                               = <<"Enter an amount greater than zero.">>
                         /\ statusMessage' = null
                         /\ contracts' = contracts
                         /\ lastOp' = lastOp
                         /\ returned' = returned]_vars

\* "00" was typed after a mint of the default amount and the click on it
\* has been refused: the mint before it is still the last call made
C27_Witness ==
    \E t \in Listed :
        /\ t \in DOMAIN mintInputs
        /\ mintInputs[t] = <<"0", "0">>
        /\ errorMessage = <<"Enter an amount greater than zero.">>
        /\ statusMessage = null
        /\ lastOp.op = "mint"
        /\ lastOp.status = "ok"
        /\ lastOp.amount = 1
        /\ Len(Minted[t]) = 1
        /\ instances[t].mintedSupply = 1

====
